---- MODULE Spec2Model ----
(***************************************************************************)
(* A model of claude-webex-bridge: the byte-aware splitter (bot.py), the   *)
(* retrying API client (webex_api.py), the conversational turn handler and *)
(* the poll loop (bot.py).                                                  *)
(***************************************************************************)
EXTENDS Integers, Sequences, FiniteSets, TLC

VARIABLES
    text,        \* split_message: the text argument (a sequence of characters)
    max_bytes,   \* split_message: the max_bytes argument
    chunks,      \* split_message: the returned list
    split_pc,    \* "call" before split_message has run, "returned" after
    responses,   \* _request: what the server answers to attempt 1, 2, 3
    outcome,     \* _request: how the call ended
    request_pc,  \* "call" before _request has run, "ended" after
    room_states, \* _room_states: the BotState of each room
    tasks,       \* the handler activations and the await each is suspended at
    unauthorized, \* the call in which an attempt received a 401, None so far
    feed,        \* the newest messages of each room on the server, newest first:
                 \* as many as one list_messages call can return
    posted,      \* the number of messages posted to each room so far
    last_seen,   \* poll_loop: last_seen, NoId for a room without an entry
    initialized_rooms, \* poll_loop: initialized_rooms
    poll,        \* poll_loop: where the loop is, the rooms and messages left
    dispatched,  \* the ids of the messages passed to dispatch, per room, in order
    polled,      \* per room: how many list_messages calls have returned (0, 1,
                 \* 2 = more) and how many messages the feed held at the first
    cli          \* claude_cli.send_message: its arguments, the await it is
                 \* suspended at, the child process and how the call ended

splitVars == <<text, max_bytes, chunks, split_pc>>
requestVars == <<responses, outcome, request_pc>>
botVars == <<room_states, tasks, unauthorized>>
pollVars == <<feed, posted, last_seen, initialized_rooms, poll, dispatched, polled>>
cliVars == <<cli>>
vars == <<text, max_bytes, chunks, split_pc, responses, outcome, request_pc,
          room_states, tasks, unauthorized,
          feed, posted, last_seen, initialized_rooms, poll, dispatched, polled, cli>>

None == "None"

\* last_seen.get(room_id) for a room without an entry; message ids are 1, 2, ...
NoId == 0

Min(a, b) == IF a <= b THEN a ELSE b

(***************************************************************************)
(* Bounds                                                                   *)
(***************************************************************************)
MaxTextLen == 5
MaxBudget == 5
NumTurns == 2
MaxMessages == 4
PageSize == 3
MaxCommands == 3

(***************************************************************************)
(* Strings are sequences of characters.  "a" and the line break are one     *)
(* byte in UTF-8; U2, U3 and U4 stand for characters of 2, 3 and 4 bytes.   *)
(***************************************************************************)
NL == "\n"
Chars == {"a", NL, "U2", "U3", "U4"}

Utf8Len(c) ==
    CASE c = "U2" -> 2
      [] c = "U3" -> 3
      [] c = "U4" -> 4
      [] OTHER -> 1

RECURSIVE ByteLen(_)
ByteLen(s) == IF s = <<>> THEN 0 ELSE Utf8Len(Head(s)) + ByteLen(Tail(s))

\* text.split("\n"): the lines of s; the empty string has one empty line
RECURSIVE SplitLinesFrom(_, _, _)
SplitLinesFrom(s, lines, line) ==
    IF s = <<>> THEN Append(lines, line)
    ELSE IF Head(s) = NL THEN SplitLinesFrom(Tail(s), Append(lines, line), <<>>)
    ELSE SplitLinesFrom(Tail(s), lines, Append(line, Head(s)))

SplitLines(s) == SplitLinesFrom(s, <<>>, <<>>)

\* the loop of _hard_split_line over the characters of a line
RECURSIVE HardSplitLoop(_, _, _, _)
HardSplitLoop(line, budget, parts, current) ==
    IF line = <<>>
    THEN IF current # <<>> THEN Append(parts, current) ELSE parts
    ELSE LET char == Head(line)
             candidate == Append(current, char)
         IN  IF ByteLen(candidate) > budget
             THEN HardSplitLoop(Tail(line), budget, Append(parts, current), <<char>>)
             ELSE HardSplitLoop(Tail(line), budget, parts, candidate)

\* a slip: the budget is compared with the number of characters
RECURSIVE HardSplitLoopChars(_, _, _, _)
HardSplitLoopChars(line, budget, parts, current) ==
    IF line = <<>>
    THEN IF current # <<>> THEN Append(parts, current) ELSE parts
    ELSE LET char == Head(line)
             candidate == Append(current, char)
         IN  IF Len(candidate) > budget
             THEN HardSplitLoopChars(Tail(line), budget, Append(parts, current), <<char>>)
             ELSE HardSplitLoopChars(Tail(line), budget, parts, candidate)

hard_split_line_chars(line, budget) == HardSplitLoopChars(line, budget, <<>>, <<>>)

hard_split_line(line, budget) == HardSplitLoop(line, budget, <<>>, <<>>)

\* the loop of split_message over the lines; returns chunks and current
RECURSIVE SplitLoop(_, _, _, _)
SplitLoop(lines, budget, done, current) ==
    IF lines = <<>> THEN [chunks |-> done, current |-> current]
    ELSE LET line == Head(lines)
             candidate == IF current # <<>> THEN current \o <<NL>> \o line ELSE line
         IN  IF ByteLen(candidate) > budget
             THEN LET flushed == IF current # <<>> THEN Append(done, current) ELSE done
                  IN  IF ByteLen(line) > budget
                      THEN SplitLoop(Tail(lines), budget,
                                     flushed \o hard_split_line(line, budget), <<>>)
                      ELSE SplitLoop(Tail(lines), budget, flushed, line)
             ELSE SplitLoop(Tail(lines), budget, done, candidate)

split_message(s, budget) ==
    IF ByteLen(s) <= budget THEN <<s>>
    ELSE LET r == SplitLoop(SplitLines(s), budget, <<>>, <<>>)
         IN  IF r.current # <<>> THEN Append(r.chunks, r.current) ELSE r.chunks

RECURSIVE StringsUpTo(_)
StringsUpTo(n) ==
    IF n = 0 THEN {<<>>}
    ELSE LET shorter == StringsUpTo(n - 1)
         IN  shorter \cup {Append(s, c) : s \in {x \in shorter : Len(x) = n - 1}, c \in Chars}

\* the splitter at rest, in the specifications that are not about it
SplitIdle ==
    /\ text = <<>>
    /\ max_bytes = 1
    /\ chunks = <<>>
    /\ split_pc = "idle"

Split ==
    /\ split_pc = "call"
    /\ chunks' = split_message(text, max_bytes)
    /\ split_pc' = "returned"
    /\ UNCHANGED <<text, max_bytes>>

(***************************************************************************)
(* WebexAPI._request (webex_api.py).  One call makes up to MAX_RETRIES      *)
(* attempts; responses[k] is what attempt k meets: a network-level failure  *)
(* (httpx.RequestError) or an HTTP response with a status and, for 429, a   *)
(* Retry-After header (absent, or a string).                                *)
(***************************************************************************)
MAX_RETRIES == 3

Digits == {"0", "1", "2", "3", "4", "5", "6", "7", "8", "9"}

DigitVal(c) ==
    CASE c = "0" -> 0 [] c = "1" -> 1 [] c = "2" -> 2 [] c = "3" -> 3 [] c = "4" -> 4
      [] c = "5" -> 5 [] c = "6" -> 6 [] c = "7" -> 7 [] c = "8" -> 8 [] c = "9" -> 9

\* int(s) on a header string: a decimal number, or ValueError
RECURSIVE DecimalValue(_, _)
DecimalValue(s, acc) ==
    IF s = <<>> THEN acc ELSE DecimalValue(Tail(s), 10 * acc + DigitVal(Head(s)))

ParseDigits(s) ==
    IF s # <<>> /\ \A i \in 1..Len(s) : s[i] \in Digits
    THEN [ok |-> TRUE, value |-> DecimalValue(s, 0)]
    ELSE [ok |-> FALSE, value |-> 0]

\* int(s): digits after an optional sign
ParseInt(s) ==
    IF s # <<>> /\ Head(s) = "-"
    THEN [ok |-> ParseDigits(Tail(s)).ok, value |-> 0 - ParseDigits(Tail(s)).value]
    ELSE IF s # <<>> /\ Head(s) = "+" THEN ParseDigits(Tail(s))
    ELSE ParseDigits(s)

NoHeader == [present |-> FALSE, value |-> <<>>]
Header(s) == [present |-> TRUE, value |-> s]

\* Retry-After headers tried: absent, "", "x", "1x", "0", "10", "60", "61", "120"
RetryAfterHeaders ==
    {NoHeader} \cup
    {Header(s) : s \in {<<>>, <<"x">>, <<"1", "x">>, <<"0">>, <<"1", "0">>,
                        <<"6", "0">>, <<"6", "1">>, <<"1", "2", "0">>}}

NetworkError == [kind |-> "RequestError", status |-> 0, retry_after |-> NoHeader]
HttpResponse(status, hdr) == [kind |-> "response", status |-> status, retry_after |-> hdr]

Responses ==
    {NetworkError}
    \cup {HttpResponse(st, NoHeader) : st \in {200, 401, 404, 500, 503}}
    \cup {HttpResponse(429, h) : h \in RetryAfterHeaders}

\* a slip: the server's delay is taken uncapped
RetryAfterUncapped(hdr) ==
    LET parsed == ParseInt(IF hdr.present THEN hdr.value ELSE <<"5">>)
    IN  IF parsed.ok THEN parsed.value ELSE 5

\* lines 70-73: min(int(headers.get("Retry-After", "5")), 60), 5 on ValueError
RetryAfter(hdr) ==
    LET parsed == ParseInt(IF hdr.present THEN hdr.value ELSE <<"5">>)
    IN  IF parsed.ok THEN Min(parsed.value, 60) ELSE 5

\* a slip: the exponent counts from zero
BackoffFromZero(attempt) == Min(2 ^ (attempt - 1), 30)

\* lines 60 and 87
Backoff(attempt) == Min(2 ^ attempt, 30)

\* how a call ends: kind is "return" or the exception raised; response is the
\* status of the last response received (0: none); sleeps are the waits made;
\* calls is the number of HTTP calls made
Ended(kind, detail, response, sleeps, calls) ==
    [kind |-> kind, detail |-> detail, response |-> response,
     sleeps |-> sleeps, calls |-> calls]

\* a slip: the loop runs once more than MAX_RETRIES times; the server answers
\* the extra attempt as it answered the first
RECURSIVE RequestLoopOneMore(_, _, _, _)
RequestLoopOneMore(resps, attempt, sleeps, response) ==
    IF attempt > MAX_RETRIES + 1
    THEN Ended("HTTPStatusError", "Retries exhausted", response, sleeps, attempt - 1)
    ELSE LET r == resps[((attempt - 1) % MAX_RETRIES) + 1] IN
      IF r.kind = "RequestError"
      THEN IF attempt < MAX_RETRIES + 1
           THEN RequestLoopOneMore(resps, attempt + 1, Append(sleeps, Backoff(attempt)), response)
           ELSE Ended("RequestError", "", response, sleeps, attempt)
      ELSE IF r.status = 429
      THEN RequestLoopOneMore(resps, attempt + 1, Append(sleeps, RetryAfter(r.retry_after)), r.status)
      ELSE IF r.status = 401
      THEN Ended("SystemExit", "401 Unauthorized", r.status, sleeps, attempt)
      ELSE IF r.status >= 500 /\ attempt < MAX_RETRIES + 1
      THEN RequestLoopOneMore(resps, attempt + 1, Append(sleeps, Backoff(attempt)), r.status)
      ELSE IF r.status >= 400
      THEN Ended("HTTPStatusError", "raise_for_status", r.status, sleeps, attempt)
      ELSE Ended("return", "", r.status, sleeps, attempt)

\* a slip: a 5xx answer is waited out and retried on the last attempt too
RECURSIVE RequestLoopLastRetried(_, _, _, _)
RequestLoopLastRetried(resps, attempt, sleeps, response) ==
    IF attempt > MAX_RETRIES
    THEN Ended("HTTPStatusError", "Retries exhausted", response, sleeps, MAX_RETRIES)
    ELSE LET r == resps[attempt] IN
      IF r.kind = "RequestError"
      THEN IF attempt < MAX_RETRIES
           THEN RequestLoopLastRetried(resps, attempt + 1, Append(sleeps, Backoff(attempt)), response)
           ELSE Ended("RequestError", "", response, sleeps, attempt)
      ELSE IF r.status = 429
      THEN RequestLoopLastRetried(resps, attempt + 1, Append(sleeps, RetryAfter(r.retry_after)), r.status)
      ELSE IF r.status = 401
      THEN Ended("SystemExit", "401 Unauthorized", r.status, sleeps, attempt)
      ELSE IF r.status >= 500
      THEN RequestLoopLastRetried(resps, attempt + 1, Append(sleeps, Backoff(attempt)), r.status)
      ELSE IF r.status >= 400
      THEN Ended("HTTPStatusError", "raise_for_status", r.status, sleeps, attempt)
      ELSE Ended("return", "", r.status, sleeps, attempt)

\* a slip: a network failure is waited out and retried on the last attempt too
RECURSIVE RequestLoopFailureRetried(_, _, _, _)
RequestLoopFailureRetried(resps, attempt, sleeps, response) ==
    IF attempt > MAX_RETRIES
    THEN Ended("HTTPStatusError", "Retries exhausted", response, sleeps, MAX_RETRIES)
    ELSE LET r == resps[attempt] IN
      IF r.kind = "RequestError"
      THEN RequestLoopFailureRetried(resps, attempt + 1, Append(sleeps, Backoff(attempt)), response)
      ELSE IF r.status = 429
      THEN RequestLoopFailureRetried(resps, attempt + 1, Append(sleeps, RetryAfter(r.retry_after)), r.status)
      ELSE IF r.status = 401
      THEN Ended("SystemExit", "401 Unauthorized", r.status, sleeps, attempt)
      ELSE IF r.status >= 500 /\ attempt < MAX_RETRIES
      THEN RequestLoopFailureRetried(resps, attempt + 1, Append(sleeps, Backoff(attempt)), r.status)
      ELSE IF r.status >= 400
      THEN Ended("HTTPStatusError", "raise_for_status", r.status, sleeps, attempt)
      ELSE Ended("return", "", r.status, sleeps, attempt)

\* the for loop of _request from the given attempt on
RECURSIVE RequestLoop(_, _, _, _)
RequestLoop(resps, attempt, sleeps, response) ==
    IF attempt > MAX_RETRIES
    THEN Ended("HTTPStatusError", "Retries exhausted", response, sleeps, MAX_RETRIES)
    ELSE LET r == resps[attempt] IN
      IF r.kind = "RequestError"
      THEN IF attempt < MAX_RETRIES
           THEN RequestLoop(resps, attempt + 1, Append(sleeps, Backoff(attempt)), response)
           ELSE Ended("RequestError", "", response, sleeps, attempt)
      ELSE IF r.status = 429
      THEN RequestLoop(resps, attempt + 1, Append(sleeps, RetryAfter(r.retry_after)), r.status)
      ELSE IF r.status = 401
      THEN Ended("SystemExit", "401 Unauthorized", r.status, sleeps, attempt)
      ELSE IF r.status >= 500 /\ attempt < MAX_RETRIES
      THEN RequestLoop(resps, attempt + 1, Append(sleeps, Backoff(attempt)), r.status)
      ELSE IF r.status >= 400
      THEN Ended("HTTPStatusError", "raise_for_status", r.status, sleeps, attempt)
      ELSE Ended("return", "", r.status, sleeps, attempt)

request(resps) == RequestLoop(resps, 1, <<>>, 0)

NotEnded == Ended("pending", "", 0, <<>>, 0)

\* the client at rest, in the specifications that are not about it
RequestIdle ==
    /\ responses = [k \in 1..MAX_RETRIES |-> HttpResponse(200, NoHeader)]
    /\ outcome = NotEnded
    /\ request_pc = "idle"

Request ==
    /\ request_pc = "call"
    /\ outcome' = request(responses)
    /\ request_pc' = "ended"
    /\ UNCHANGED responses

(***************************************************************************)
(* Conversation state (bot.py, BotState and get_state)                      *)
(***************************************************************************)
Rooms == {"r1", "r2"}

S1 == [session_id |-> "s1", cwd |-> "/w1", display |-> "one"]
S2 == [session_id |-> "s2", cwd |-> "/w2", display |-> ""]
S3 == [session_id |-> "s3", cwd |-> "/w3", display |-> "three"]
S4 == [session_id |-> "s4", cwd |-> "/w4", display |-> "four"]
S5 == [session_id |-> "s5", cwd |-> "/w5", display |-> "five"]
S6 == [session_id |-> "s6", cwd |-> "/w6", display |-> "six"]
S7 == [session_id |-> "s7", cwd |-> "/w7", display |-> "seven"]
S8 == [session_id |-> "s8", cwd |-> "/w8", display |-> "/resume"]

\* BotState(): the state get_state creates for a room on first reference
BotState ==
    [session_id |-> None, session_cwd |-> None, session_label |-> "",
     skip_permissions |-> FALSE, pending_sessions |-> <<>>, processing |-> FALSE]

\* the state handle_connect leaves for a session (lines 308-310)
Connected(state, session) ==
    [state EXCEPT !.session_id = session.session_id,
                  !.session_cwd = session.cwd,
                  !.session_label = IF session.display # "" THEN session.display
                                    ELSE session.session_id]

(***************************************************************************)
(* The API calls a handler awaits.  A call ends as _request ends for some   *)
(* sequence of per-attempt responses; saw401 records that one of the        *)
(* attempts made received a 401.                                            *)
(***************************************************************************)
ApiResponses ==
    {NetworkError} \cup {HttpResponse(st, NoHeader) : st \in {200, 401, 404, 429, 500}}

Saw401(resps, ended) ==
    \E k \in 1..ended.calls : resps[k].kind = "response" /\ resps[k].status = 401

ApiOutcomes ==
    {[kind |-> request(resps).kind, saw401 |-> Saw401(resps, request(resps))] :
        resps \in [1..MAX_RETRIES -> ApiResponses]}

\* WebexAPI.send_message and the list calls: the result of _request as it is
send_message(o) == o

\* a slip: every failure of the request is swallowed, the fatal one included
edit_message_catch_all(o) ==
    IF o.kind # "return" THEN [o EXCEPT !.kind = "None"] ELSE o

\* WebexAPI.edit_message: None when the request fails with an httpx error
edit_message(o) ==
    IF o.kind \in {"HTTPStatusError", "RequestError"} THEN [o EXCEPT !.kind = "None"] ELSE o

(***************************************************************************)
(* claude_cli.send_message.  A run says what the backend does: whether the  *)
(* executable is found, how the spawn goes, whether the child finishes in   *)
(* time, its exit code, its output and what it wrote to stderr.  Each fixed *)
(* reply is shorter than the byte budget in use and is one symbol here; so  *)
(* are the text of an exception and what the backend wrote to stderr.       *)
(***************************************************************************)
StdoutTexts == {<<>>, <<"a">>, <<"a", "a", "a">>, <<"a", NL, "a", "a", "a">>}

\* str(e) of the OSError a spawn fails with
ExceptionText == "str(e)"

\* what the backend wrote to stderr: nothing, a text, a text about credentials
StderrText == "stderr"
StderrTexts == {<<>>, <<StderrText>>, <<StderrText, "credential">>}

\* exit_seen: the child exits as the timeout expires, and the event loop has
\* taken note of the exit by the time wait_for raises
CliRuns ==
    [which : BOOLEAN, spawn : {"ok", "FileNotFoundError", "OSError"},
     timed_out : BOOLEAN, exit_seen : BOOLEAN, returncode : {0, 1},
     stdout : StdoutTexts, stderr : StderrTexts]

\* lines 77: "expired" in stderr_text.lower() or "credential" in ...
MentionsCredentials(stderr) ==
    \E i \in 1..Len(stderr) : stderr[i] \in {"expired", "credential"}

\* line 67
TimeoutText == <<"Error: CLI timed out. The process was killed.">>

Returned(t) == [kind |-> "return", text |-> t]
Raised(e) == [kind |-> e, text |-> <<>>]

cli_send_message(session_id, run) ==
    IF ~run.which THEN Returned(<<"Error: 'claude' CLI not found on PATH.">>)
    ELSE IF session_id = None THEN Raised("TypeError")
    ELSE IF run.spawn = "FileNotFoundError"
    THEN Returned(<<"Error: 'claude' CLI not found on PATH.">>)
    ELSE IF run.spawn = "OSError" THEN Returned(<<"Error starting CLI: ", ExceptionText>>)
    ELSE IF run.timed_out
    THEN IF run.exit_seen THEN Raised("ProcessLookupError") ELSE Returned(TimeoutText)
    ELSE IF run.returncode # 0
    THEN IF MentionsCredentials(run.stderr)
         THEN Returned(<<"Claude encountered an error (exit code 1).",
                         "This may be an AWS credentials issue.">>)
         ELSE Returned(<<"Claude encountered an error (exit code 1).">>)
    ELSE IF run.stdout = <<>>
    THEN Returned(<<"Claude completed the request but returned no output.">>)
    ELSE Returned(run.stdout)

\* lines 26-54 of send_message: the call ends before a child exists, or the
\* child is spawned
BeforeChild(session_id, run) ==
    IF ~run.which THEN Returned(<<"Error: 'claude' CLI not found on PATH.">>)
    ELSE IF session_id = None THEN Raised("TypeError")
    ELSE IF run.spawn = "FileNotFoundError"
    THEN Returned(<<"Error: 'claude' CLI not found on PATH.">>)
    ELSE IF run.spawn = "OSError" THEN Returned(<<"Error starting CLI: ", ExceptionText>>)
    ELSE [kind |-> "spawned", text |-> <<>>]

\* lines 69-84: the child has exited in time
AfterChild(run) == cli_send_message("s1", [run EXCEPT !.which = TRUE, !.spawn = "ok",
                                                       !.timed_out = FALSE])

\* one call of send_message; child: "none", "running", "killed" (the signal
\* is sent, the child is not yet waited for), "reaped"
CliAt(pc, session_id, run, child, result) ==
    [pc |-> pc, session_id |-> session_id, run |-> run, child |-> child, result |-> result]

NoRun ==
    [which |-> TRUE, spawn |-> "ok", timed_out |-> FALSE, exit_seen |-> FALSE,
     returncode |-> 0, stdout |-> <<>>, stderr |-> <<>>]

NoResult == [kind |-> "pending", text |-> <<>>]

\* the backend call at rest, in the specifications that do not step through it
CliIdle == cli = CliAt("idle", None, NoRun, "none", NoResult)

\* lines 26-54
CliSpawned ==
    /\ cli.pc = "call"
    /\ LET res == BeforeChild(cli.session_id, cli.run)
       IN  cli' = IF res.kind = "spawned"
                  THEN [cli EXCEPT !.pc = "communicate", !.child = "running"]
                  ELSE [cli EXCEPT !.pc = "ended", !.result = res]

\* line 65, process.kill(): ProcessLookupError when the event loop has
\* already seen the child exit
Kill(child) == IF child = "running" THEN "killed" ELSE "ProcessLookupError"

\* lines 59-65: communicate returns and the answer is built (69-84), or
\* wait_for raises TimeoutError and the child is killed
CliCommunicated ==
    /\ cli.pc = "communicate"
    /\ IF ~cli.run.timed_out
       THEN cli' = [cli EXCEPT !.pc = "ended", !.child = "reaped",
                               !.result = AfterChild(cli.run)]
       ELSE LET child == IF cli.run.exit_seen THEN "reaped" ELSE "running"
                killed == Kill(child)
            IN  IF killed = "ProcessLookupError"
                THEN cli' = [cli EXCEPT !.pc = "ended", !.child = child,
                                        !.result = Raised("ProcessLookupError")]
                ELSE cli' = [cli EXCEPT !.pc = "wait", !.child = killed]

\* lines 66-67: process.wait() returns
CliWaited ==
    /\ cli.pc = "wait"
    /\ cli' = [cli EXCEPT !.pc = "ended", !.child = "reaped", !.result = Returned(TimeoutText)]

\* the byte budget of one message (config), scaled down
WEBEX_MAX_MESSAGE_BYTES == 2

(***************************************************************************)
(* handle_text_message (bot.py, lines 371-417).  A task is one activation   *)
(* of a handler; pc names the await it is suspended at, checked is the     *)
(* session id the test of line 374 read, session the one line 390 passes.  *)
(***************************************************************************)
NoTask ==
    [handler |-> "none", pc |-> "idle", room |-> "r1", thinking_id |-> None,
     chunks |-> <<>>, k |-> 0, claimed |-> FALSE, checked |-> None, session |-> None,
     arg |-> <<>>, all_sessions |-> <<>>, reply |-> <<>>, sent |-> <<>>,
     exit |-> "", exit_at |-> ""]

NewTask(handler, room) == [NoTask EXCEPT !.handler = handler, !.room = room]

Await(task, state, pc) == [task |-> [task EXCEPT !.pc = pc], state |-> state]

\* the activation is over: its locals are gone, how and where it ended is
\* kept, and the calls it made until the event loop lets go of it
Done(task, exit) ==
    [NoTask EXCEPT !.handler = task.handler, !.room = task.room, !.pc = "done",
                   !.claimed = task.claimed, !.sent = task.sent,
                   !.exit = exit, !.exit_at = task.pc]

\* the fixed texts of handle_text_message (lines 375, 379, 386, 411)
NotConnectedText == <<"Not connected. Use /sessions to pick a session.">>
BusyText == <<"Still processing the previous message. Please wait.">>
ThinkingText == <<"Thinking...">>
error_text == <<"An error occurred while processing your message. Check the bot logs for details.">>

\* the API method and the text of the call a task is suspended at
CallOf(task) ==
    IF task.pc \in {"edit_first", "edit_error"} THEN "edit_message"
    ELSE IF task.pc = "send_card" THEN "send_card_message"
    ELSE "send_message"

BodyOf(task) ==
    CASE task.pc = "send_not_connected" -> NotConnectedText
      [] task.pc = "send_busy" -> BusyText
      [] task.pc = "send_thinking" -> ThinkingText
      [] task.pc \in {"edit_first", "send_first", "send_rest"} -> task.chunks[task.k]
      [] task.pc \in {"edit_error", "send_error"} -> error_text
      [] OTHER -> task.reply

\* the call a task is suspended at has ended as o: the chat holds the text
\* when it returned
Called(task, o) ==
    [task EXCEPT !.sent = Append(@, [call |-> CallOf(task), text |-> BodyOf(task),
                                     ok |-> o.kind = "return"])]

\* a return or raise outside the try statement
Leave(task, state, exit) == [task |-> Done(task, exit), state |-> state]

\* a slip: the guard is reset at the end of the try and except blocks only,
\* so an exit that passes through neither (SystemExit, a raise in except)
\* leaves it set
FinallyMissing(state, exit) ==
    IF exit = "return" THEN [state EXCEPT !.processing = FALSE] ELSE state

\* lines 416-417
Finally(state, exit) == [state EXCEPT !.processing = FALSE]

\* a return or raise inside the try statement: finally runs first
LeaveTry(task, state, exit) ==
    [task |-> Done(task, exit), state |-> Finally(state, exit)]

\* lines 409-415, up to the await
ExceptHandler(task, state) ==
    Await(task, state, IF task.thinking_id # None THEN "edit_error" ELSE "send_error")

IsHttpxError(kind) == kind \in {"HTTPStatusError", "RequestError"}

\* a slip: no check of the guard
handle_text_message_unguarded(task, state) ==
    IF state.session_id = None THEN Await(task, state, "send_not_connected")
    ELSE Await([task EXCEPT !.claimed = TRUE, !.thinking_id = None],
               [state EXCEPT !.processing = TRUE], "send_thinking")

\* a slip: no check of the connection
handle_text_message_unconnected(task, state) ==
    IF state.processing THEN Await(task, state, "send_busy")
    ELSE Await([task EXCEPT !.claimed = TRUE, !.thinking_id = None],
               [state EXCEPT !.processing = TRUE], "send_thinking")

\* lines 373-386, up to the first await
handle_text_message(task, state) ==
    IF state.session_id = None THEN Await(task, state, "send_not_connected")
    ELSE IF state.processing THEN Await(task, state, "send_busy")
    ELSE Await([task EXCEPT !.claimed = TRUE, !.thinking_id = None,
                            !.checked = state.session_id],
               [state EXCEPT !.processing = TRUE], "send_thinking")

\* lines 375-376 and 379-380 after the await: a reply outside the try statement
AfterReply(task, state, o) ==
    Leave(task, state, IF IsHttpxError(o.kind) THEN "Exception" ELSE o.kind)

\* lines 386-394: the placeholder was sent (id: the id of the response, None
\* when it has none); the arguments of the backend call are read now
AfterThinking(task, state, o, id) ==
    IF o.kind = "return"
    THEN Await([task EXCEPT !.thinking_id = id, !.session = state.session_id],
               state, "cli")
    ELSE IF o.kind = "SystemExit" THEN LeaveTry(task, state, "SystemExit")
    ELSE ExceptHandler(task, state)

\* lines 389-404: the backend call ended with res
AfterCli(task, state, res) ==
    IF res.kind # "return" THEN ExceptHandler(task, state)
    ELSE LET cs == split_message(res.text, WEBEX_MAX_MESSAGE_BYTES)
         IN  IF cs = <<>> THEN ExceptHandler(task, state)
             ELSE Await([task EXCEPT !.chunks = cs, !.k = 1], state,
                        IF task.thinking_id # None THEN "edit_first" ELSE "send_first")

\* lines 406-408: the first chunk is out
AfterFirst(task, state) ==
    IF Len(task.chunks) >= 2
    THEN Await([task EXCEPT !.k = 2], state, "send_rest")
    ELSE LeaveTry(task, state, "return")

\* a slip: the result of the edit is not looked at
AfterEditFirstUnchecked(task, state, o) ==
    LET result == edit_message(o)
    IN  IF result.kind \in {"return", "None"} THEN AfterFirst(task, state)
        ELSE LeaveTry(task, state, "SystemExit")

\* lines 400-402
AfterEditFirst(task, state, o) ==
    LET result == edit_message(o)
    IN  IF result.kind = "return" THEN AfterFirst(task, state)
        ELSE IF result.kind = "None" THEN Await(task, state, "send_first")
        ELSE LeaveTry(task, state, "SystemExit")

\* lines 402 and 404
AfterSendFirst(task, state, o) ==
    IF o.kind = "return" THEN AfterFirst(task, state)
    ELSE IF o.kind = "SystemExit" THEN LeaveTry(task, state, "SystemExit")
    ELSE ExceptHandler(task, state)

\* lines 407-408
AfterSendRest(task, state, o) ==
    IF o.kind = "return"
    THEN IF task.k < Len(task.chunks)
         THEN Await([task EXCEPT !.k = task.k + 1], state, "send_rest")
         ELSE LeaveTry(task, state, "return")
    ELSE IF o.kind = "SystemExit" THEN LeaveTry(task, state, "SystemExit")
    ELSE ExceptHandler(task, state)

\* line 413: the notice replaces the placeholder, or the edit returned None
AfterEditError(task, state, o) ==
    LET result == edit_message(o)
    IN  IF result.kind \in {"return", "None"} THEN LeaveTry(task, state, "return")
        ELSE LeaveTry(task, state, "SystemExit")

\* line 415
AfterSendError(task, state, o) ==
    LeaveTry(task, state, IF IsHttpxError(o.kind) THEN "Exception" ELSE o.kind)

(***************************************************************************)
(* The steps of a handler activation: from one await to the next            *)
(***************************************************************************)
\* a handler awaited by the poll loop (line 519) leaves nothing but the way
\* it ended
Settle(task) ==
    IF task.pc = "done" /\ poll.pc = "dispatch"
    THEN [NoTask EXCEPT !.pc = "done", !.exit = task.exit]
    ELSE task

Advance(t, next) ==
    /\ tasks' = [tasks EXCEPT ![t] = Settle(next.task)]
    /\ room_states' = [room_states EXCEPT ![next.task.room] = next.state]

\* the API call named call ended as o
Received(call, o) == unauthorized' = IF o.saw401 THEN call ELSE unauthorized

At(t, pc) == tasks[t].pc = pc

StateOf(t) == room_states[tasks[t].room]

\* dispatch calls handle_text_message for a text that is no command
StartTurn(t, r) ==
    /\ At(t, "idle")
    /\ Advance(t, handle_text_message(NewTask("handle_text_message", r), room_states[r]))
    /\ UNCHANGED unauthorized

ReplySent(t) ==
    /\ At(t, "send_not_connected") \/ At(t, "send_busy") \/ At(t, "send_reply")
       \/ At(t, "send_card")
    /\ \E o \in ApiOutcomes :
          Advance(t, AfterReply(Called(tasks[t], o), StateOf(t), send_message(o))) /\ Received(tasks[t].pc, o)

ThinkingSent(t) ==
    /\ At(t, "send_thinking")
    /\ \E o \in ApiOutcomes, id \in {None, "placeholder"} :
          Advance(t, AfterThinking(Called(tasks[t], o), StateOf(t), send_message(o), id)) /\ Received(tasks[t].pc, o)

CliEnded(t) ==
    /\ At(t, "cli")
    /\ \E res \in {cli_send_message(tasks[t].session, run) : run \in CliRuns} :
          Advance(t, AfterCli(tasks[t], StateOf(t), res))
    /\ UNCHANGED unauthorized

FirstEdited(t) ==
    /\ At(t, "edit_first")
    /\ \E o \in ApiOutcomes :
          Advance(t, AfterEditFirst(Called(tasks[t], o), StateOf(t), o)) /\ Received(tasks[t].pc, o)

FirstSent(t) ==
    /\ At(t, "send_first")
    /\ \E o \in ApiOutcomes :
          Advance(t, AfterSendFirst(Called(tasks[t], o), StateOf(t), send_message(o))) /\ Received(tasks[t].pc, o)

RestSent(t) ==
    /\ At(t, "send_rest")
    /\ \E o \in ApiOutcomes :
          Advance(t, AfterSendRest(Called(tasks[t], o), StateOf(t), send_message(o))) /\ Received(tasks[t].pc, o)

ErrorEdited(t) ==
    /\ At(t, "edit_error")
    /\ \E o \in ApiOutcomes :
          Advance(t, AfterEditError(Called(tasks[t], o), StateOf(t), o)) /\ Received(tasks[t].pc, o)

ErrorSent(t) ==
    /\ At(t, "send_error")
    /\ \E o \in ApiOutcomes :
          Advance(t, AfterSendError(Called(tasks[t], o), StateOf(t), send_message(o))) /\ Received(tasks[t].pc, o)

(***************************************************************************)
(* Command handlers used to reach a connected conversation (bot.py)         *)
(***************************************************************************)
_SKIP_DISPLAYS == {"/exit", "/help", "/start", "/resume", "/sessions", ""}

\* what list_recent_sessions may return
Catalogs == {<<>>, <<S1, S2>>}

Take(s, n) == SubSeq(s, 1, Min(n, Len(s)))

\* the reply a handler is about to send, and the await it is sent at
Reply(task, state, reply) == Await([task EXCEPT !.reply = reply], state, "send_reply")

\* lines 146-157
handle_start(task, state) == Reply(task, state, <<"Claude Code Bridge (Webex) ...">>)

\* lines 252-260: the list /sessions shows and caches
Shown(all_sessions) ==
    LET filtered == SelectSeq(all_sessions, LAMBDA x : x.display \notin _SKIP_DISPLAYS)
    IN  Take(IF filtered = <<>> THEN all_sessions ELSE filtered, 5)

\* lines 244-274, up to the await
handle_sessions(task, state, all_sessions) ==
    LET call == [task EXCEPT !.all_sessions = all_sessions]
    IN  IF all_sessions = <<>> THEN Reply(call, state, <<"No recent sessions found.">>)
        ELSE Await([call EXCEPT !.reply = <<"Recent Sessions ...">>],
                   [state EXCEPT !.pending_sessions = Shown(all_sessions)], "send_card")

ConnectedText == <<"Connected to: ...">>

\* a slip: the conversation is connected before the session is looked up
handle_connect_unverified(task, state, arg, found) ==
    LET index == ParseInt(arg)
        call == [task EXCEPT !.arg = arg]
    IN  IF arg = <<>> THEN Reply(call, state, <<"Usage: /connect N (run /sessions first)">>)
        ELSE IF ~index.ok THEN Reply(call, state, <<"Invalid number. Usage: /connect N">>)
        ELSE IF state.pending_sessions = <<>>
        THEN Reply(call, state, <<"No session list cached. Run /sessions first.">>)
        ELSE IF index.value < 1 \/ index.value > Len(state.pending_sessions)
        THEN Reply(call, state, <<"Out of range. Pick a number between 1 and N.">>)
        ELSE IF ~found
        THEN Reply(call, Connected(state, state.pending_sessions[index.value]),
                   <<"Session not found. It may have been deleted. Run /sessions again.">>)
        ELSE Reply(call, Connected(state, state.pending_sessions[index.value]), ConnectedText)

\* lines 278-320, up to the await; found: get_session_by_id finds the session
handle_connect(task, state, arg, found) ==
    LET index == ParseInt(arg)
        call == [task EXCEPT !.arg = arg]
    IN  IF arg = <<>> THEN Reply(call, state, <<"Usage: /connect N (run /sessions first)">>)
        ELSE IF ~index.ok THEN Reply(call, state, <<"Invalid number. Usage: /connect N">>)
        ELSE IF state.pending_sessions = <<>>
        THEN Reply(call, state, <<"No session list cached. Run /sessions first.">>)
        ELSE IF index.value < 1 \/ index.value > Len(state.pending_sessions)
        THEN Reply(call, state, <<"Out of range. Pick a number between 1 and N.">>)
        ELSE IF ~found
        THEN Reply(call, state,
                   <<"Session not found. It may have been deleted. Run /sessions again.">>)
        ELSE Reply(call, Connected(state, state.pending_sessions[index.value]), ConnectedText)

\* a slip: the label is read after it has been cleared
handle_disconnect_label_lost(task, state) ==
    IF state.session_id = None THEN Reply(task, state, <<"Not connected to any session.">>)
    ELSE Reply(task,
               [state EXCEPT !.session_id = None, !.session_cwd = None, !.session_label = ""],
               <<"Disconnected from: ", "">>)

\* lines 324-333, up to the await
handle_disconnect(task, state) ==
    IF state.session_id = None THEN Reply(task, state, <<"Not connected to any session.">>)
    ELSE Reply(task,
               [state EXCEPT !.session_id = None, !.session_cwd = None, !.session_label = ""],
               <<"Disconnected from: ", state.session_label>>)

\* lines 337-348, up to the await
handle_status(task, state) ==
    LET mode == IF state.skip_permissions THEN "Mode: skip-permissions" ELSE "Mode: safe"
    IN  IF state.session_id = None THEN Reply(task, state, <<"Not connected", mode>>)
        ELSE Reply(task, state, <<"Connected to: ", state.session_label, state.session_id,
                                  state.session_cwd, mode>>)

\* lines 352-368, up to the await
handle_safe(task, state) ==
    Reply(task, [state EXCEPT !.skip_permissions = ~@],
          IF state.skip_permissions THEN <<"Mode: safe ...">>
          ELSE <<"Mode: skip-permissions ...">>)

(***************************************************************************)
(* dispatch and poll_loop (bot.py, lines 434-527)                           *)
(***************************************************************************)
Text(command, arg) == [command |-> command, arg |-> arg]

\* message texts after strip(): empty, a plain text, two commands
Texts == {Text("", <<>>), Text("hi", <<>>), Text("/sessions", <<>>), Text("/connect", <<"1">>)}

\* the first words that start with a slash: /connect, the keys of COMMANDS
\* (lines 424-431) and one that is no command
COMMANDS == {"/start", "/help", "/sessions", "/disconnect", "/status", "/safe"}
SlashWords == COMMANDS \cup {"/connect", "/other"}

\* the people who post: the bot itself, an authorized user, someone else
People == {"bot", "user", "stranger"}

bot_id == "bot"

is_authorized(person) == person = "user"

\* what is posted: any text by the user, one text by each of the others
Posts ==
    {[personId |-> "user", text |-> txt] : txt \in Texts}
    \cup {[personId |-> person, text |-> Text("hi", <<>>)] : person \in People \ {"user"}}

\* lines 436-451, up to the first await of the handler
dispatch(task, state, txt, all_sessions, found) ==
    IF txt.command \notin SlashWords THEN handle_text_message(task, state)
    ELSE IF txt.command = "/connect" THEN handle_connect(task, state, txt.arg, found)
    ELSE IF txt.command \in {"/start", "/help"} THEN handle_start(task, state)
    ELSE IF txt.command = "/sessions" THEN handle_sessions(task, state, all_sessions)
    ELSE IF txt.command = "/disconnect" THEN handle_disconnect(task, state)
    ELSE IF txt.command = "/status" THEN handle_status(task, state)
    ELSE IF txt.command = "/safe" THEN handle_safe(task, state)
    ELSE Reply(task, state, <<"Unknown command: ", txt.command>>)

HandlerOf(txt) ==
    IF txt.command \notin SlashWords THEN "handle_text_message"
    ELSE IF txt.command = "/connect" THEN "handle_connect"
    ELSE IF txt.command \in {"/start", "/help"} THEN "handle_start"
    ELSE IF txt.command = "/sessions" THEN "handle_sessions"
    ELSE IF txt.command = "/disconnect" THEN "handle_disconnect"
    ELSE IF txt.command = "/status" THEN "handle_status"
    ELSE IF txt.command = "/safe" THEN "handle_safe"
    ELSE "dispatch"

Reverse(s) == [i \in 1..Len(s) |-> s[Len(s) + 1 - i]]

\* the messages of a page in front of the one with the id cursor (lines 492-496)
RECURSIVE Before(_, _)
Before(page, cursor) ==
    IF page = <<>> \/ Head(page).id = cursor THEN <<>>
    ELSE <<Head(page)>> \o Before(Tail(page), cursor)

\* a slip: the batch is left newest first
CollectNewestFirst(page, cursor) == Before(page, cursor)

\* lines 491-502: new_messages, oldest first
Collect(page, cursor) == Reverse(Before(page, cursor))

\* the rooms list_direct_rooms returns
RoomList == <<"r1">>

RoomsOf(rooms) == {rooms[i] : i \in 1..Len(rooms)}

PollAt(pc, rooms, room, new_messages) ==
    [pc |-> pc, rooms |-> rooms, room |-> room, new_messages |-> new_messages]

\* the next cycle: the sleep of line 527 is over and line 469 awaits the rooms
NextCycle == PollAt("list_rooms", <<>>, "r1", <<>>)

\* the top of the loop over rooms (line 471), or the end of the cycle
NextRoom(rooms) ==
    IF rooms = <<>> THEN NextCycle
    ELSE PollAt("list_messages", Tail(rooms), Head(rooms), <<>>)

\* a slip: after a handler raised the loop goes on with the rest of the batch
AfterFailureGoesOn(kind) ==
    IF kind = "SystemExit" THEN PollAt("exited", <<>>, "r1", <<>>)
    ELSE [poll EXCEPT !.pc = "for_msg"]

\* lines 521-527 after an API call or a handler ended in kind
AfterFailure(kind) ==
    IF kind = "SystemExit" THEN PollAt("exited", <<>>, "r1", <<>>) ELSE NextCycle

\* someone posts a message before the server answers the pending
\* list_messages (line 473, max_messages); ids count up within a room
Post(r) ==
    /\ poll.pc = "list_messages" /\ poll.room = r
    /\ posted[r] < MaxMessages
    /\ \E post \in Posts :
          feed' = [feed EXCEPT ![r] =
                     Take(<<[id |-> posted[r] + 1, personId |-> post.personId,
                             text |-> post.text]>> \o @, PageSize)]
    /\ posted' = [posted EXCEPT ![r] = @ + 1]
    /\ UNCHANGED <<last_seen, initialized_rooms, poll, dispatched, polled, botVars>>

\* line 469
RoomsListed ==
    /\ poll.pc = "list_rooms"
    /\ \E o \in ApiOutcomes :
          /\ Received("list_rooms", o)
          /\ poll' = IF o.kind = "return" THEN NextRoom(RoomList) ELSE AfterFailure(o.kind)
    /\ UNCHANGED <<feed, posted, last_seen, initialized_rooms, dispatched, polled>>
    /\ UNCHANGED <<room_states, tasks>>

\* a list_messages call for room r has returned
Seen(r) ==
    polled' = [polled EXCEPT ![r] =
                 IF @.count = 0 THEN [count |-> 1, first |-> posted[r]]
                 ELSE [@ EXCEPT !.count = 2]]

\* line 473: the await of list_messages ends
MessagesListed ==
    /\ poll.pc = "list_messages"
    /\ \E o \in ApiOutcomes :
          /\ Received("list_messages", o)
          /\ IF o.kind = "return"
             THEN Seen(poll.room) /\ poll' = [poll EXCEPT !.pc = "messages"]
             ELSE poll' = AfterFailure(o.kind) /\ UNCHANGED polled
    /\ UNCHANGED <<feed, posted, last_seen, initialized_rooms, dispatched>>
    /\ UNCHANGED <<room_states, tasks>>

\* a slip: no room is taken for new
FirstSightNever(r) == FALSE

\* line 481
FirstSight(r) == r \notin initialized_rooms

\* a slip: the position is not moved
KeepPosition(cursor, newest_id) == cursor

\* line 499
UpdatePosition(cursor, newest_id) == newest_id

\* lines 475-502: the page list_messages returned
MessagesRead ==
    /\ poll.pc = "messages"
    /\ LET r == poll.room
           messages == feed[r]
       IN  IF messages = <<>>
           THEN /\ poll' = NextRoom(poll.rooms)
                /\ UNCHANGED <<last_seen, initialized_rooms>>
           ELSE IF FirstSight(r)
           THEN /\ initialized_rooms' = initialized_rooms \cup {r}
                /\ last_seen' = [last_seen EXCEPT ![r] = messages[1].id]
                /\ poll' = NextRoom(poll.rooms)
           ELSE IF last_seen[r] = messages[1].id
           THEN /\ poll' = NextRoom(poll.rooms)
                /\ UNCHANGED <<last_seen, initialized_rooms>>
           ELSE /\ poll' = PollAt("for_msg", poll.rooms, r, Collect(messages, last_seen[r]))
                /\ last_seen' = [last_seen EXCEPT ![r] = UpdatePosition(@, messages[1].id)]
                /\ UNCHANGED initialized_rooms
    /\ UNCHANGED <<feed, posted, dispatched, polled, botVars>>

\* a slip: no check of the sender's authorization
SkippedOwnOrEmpty(msg) ==
    \/ msg.personId = bot_id
    \/ msg.text.command = ""

\* lines 504-516: a message that is not dispatched
Skipped(msg) ==
    \/ msg.personId = bot_id
    \/ ~is_authorized(msg.personId)
    \/ msg.text.command = ""

\* lines 504-519: the next message of the batch, up to the first await
NextMessage ==
    /\ poll.pc = "for_msg"
    /\ IF poll.new_messages = <<>>
       THEN /\ poll' = NextRoom(poll.rooms)
            /\ UNCHANGED <<dispatched, room_states, tasks>>
       ELSE LET msg == Head(poll.new_messages) IN
            IF Skipped(msg)
            THEN /\ poll' = [poll EXCEPT !.new_messages = Tail(@)]
                 /\ UNCHANGED <<dispatched, room_states, tasks>>
            ELSE /\ poll' = [poll EXCEPT !.new_messages = Tail(@), !.pc = "dispatch"]
                 /\ dispatched' = [dispatched EXCEPT ![poll.room] = Append(@, msg.id)]
                 /\ \E all_sessions \in Catalogs, found \in BOOLEAN :
                       Advance(1, dispatch(NewTask(HandlerOf(msg.text), poll.room),
                                           room_states[poll.room], msg.text,
                                           all_sessions, found))
    /\ UNCHANGED <<feed, posted, last_seen, initialized_rooms, polled, unauthorized>>

\* line 519 returns or raises: the loop goes on, sleeps or stops
Dispatched ==
    /\ poll.pc = "dispatch"
    /\ poll' = IF tasks'[1].pc # "done" THEN poll
               ELSE IF tasks'[1].exit = "return" THEN [poll EXCEPT !.pc = "for_msg"]
               ELSE AfterFailure(tasks'[1].exit)
    /\ UNCHANGED <<feed, posted, last_seen, initialized_rooms, dispatched, polled>>

(***************************************************************************)
(* Specifications                                                           *)
(***************************************************************************)
\* the bot before any room is referenced
BotIdle ==
    /\ room_states = [r \in Rooms |-> BotState]
    /\ tasks = [t \in 1..1 |-> NoTask]
    /\ unauthorized = None

\* the loop before it starts
PollIdle ==
    /\ feed = [r \in Rooms |-> <<>>]
    /\ posted = [r \in Rooms |-> 0]
    /\ last_seen = [r \in Rooms |-> NoId]
    /\ initialized_rooms = {}
    /\ poll = PollAt("idle", <<>>, "r1", <<>>)
    /\ dispatched = [r \in Rooms |-> <<>>]
    /\ polled = [r \in Rooms |-> [count |-> 0, first |-> 0]]

SplitInit ==
    /\ text \in StringsUpTo(MaxTextLen)
    /\ max_bytes \in 1..MaxBudget
    /\ chunks = <<>>
    /\ split_pc = "call"
    /\ RequestIdle
    /\ BotIdle
    /\ PollIdle
    /\ CliIdle

SplitNext == Split /\ UNCHANGED <<requestVars, botVars, pollVars, cliVars>>

SpecSplit == SplitInit /\ [][SplitNext]_vars

RequestInit ==
    /\ responses \in [1..MAX_RETRIES -> Responses]
    /\ outcome = NotEnded
    /\ request_pc = "call"
    /\ SplitIdle
    /\ BotIdle
    /\ PollIdle
    /\ CliIdle

RequestNext == Request /\ UNCHANGED <<splitVars, botVars, pollVars, cliVars>>

SpecRequest == RequestInit /\ [][RequestNext]_vars

\* the states commands leave a conversation in between two turns
StatesBetweenTurns ==
    {BotState, Connected([BotState EXCEPT !.pending_sessions = <<S1, S2>>], S1)}

\* NumTurns calls of handle_text_message, interleaved at their awaits
TurnsInit ==
    /\ room_states \in [Rooms -> StatesBetweenTurns]
    /\ tasks = [t \in 1..NumTurns |-> NoTask]
    /\ unauthorized = None
    /\ SplitIdle
    /\ RequestIdle
    /\ PollIdle
    /\ CliIdle

\* SystemExit ends the process: nothing runs after a task has raised it
Running == \A t \in DOMAIN tasks : tasks[t].exit # "SystemExit"

\* the calls are numbered in the order they are made
CallsBefore(t) == \A u \in 1..(t - 1) : ~At(u, "idle")

\* a finished activation whose frame the event loop still holds
Finished(t) == tasks[t].pc = "done" /\ tasks[t].sent # <<>>

\* the event loop lets go of a finished activation before anything else runs
Released(t) ==
    /\ Finished(t)
    /\ tasks' = [tasks EXCEPT ![t].sent = <<>>]
    /\ UNCHANGED <<room_states, unauthorized>>

TurnsFrame ==
    /\ Running
    /\ \A t \in DOMAIN tasks : ~Finished(t)
    /\ UNCHANGED <<splitVars, requestVars, cliVars, pollVars>>

TurnsNext ==
    \E t \in 1..NumTurns :
        \/ (\E r \in Rooms : CallsBefore(t) /\ StartTurn(t, r)) /\ TurnsFrame
        \/ ReplySent(t) /\ TurnsFrame
        \/ ThinkingSent(t) /\ TurnsFrame
        \/ CliEnded(t) /\ TurnsFrame
        \/ FirstEdited(t) /\ TurnsFrame
        \/ FirstSent(t) /\ TurnsFrame
        \/ RestSent(t) /\ TurnsFrame
        \/ ErrorEdited(t) /\ TurnsFrame
        \/ ErrorSent(t) /\ TurnsFrame
        \/ Released(t) /\ UNCHANGED <<splitVars, requestVars, cliVars, pollVars>>

SpecTurns == TurnsInit /\ [][TurnsNext]_vars

\* the commands that bind or unbind the session of a conversation
BindingTexts == {Text("/disconnect", <<>>), Text("/connect", <<"1">>), Text("/connect", <<"2">>)}

\* dispatch calls the handler of a binding command
StartBinding(t, r) ==
    /\ At(t, "idle")
    /\ \E txt \in BindingTexts, found \in BOOLEAN :
          Advance(t, dispatch(NewTask(HandlerOf(txt), r), room_states[r], txt, <<>>, found))
    /\ UNCHANGED unauthorized

\* NumTurns calls of dispatch, each for a turn or a binding command,
\* interleaved at their awaits
SharedNext ==
    \E t \in 1..NumTurns :
        \/ (\E r \in Rooms : CallsBefore(t) /\ StartTurn(t, r)) /\ TurnsFrame
        \/ (\E r \in Rooms : CallsBefore(t) /\ StartBinding(t, r)) /\ TurnsFrame
        \/ ReplySent(t) /\ TurnsFrame
        \/ ThinkingSent(t) /\ TurnsFrame
        \/ CliEnded(t) /\ TurnsFrame
        \/ FirstEdited(t) /\ TurnsFrame
        \/ FirstSent(t) /\ TurnsFrame
        \/ RestSent(t) /\ TurnsFrame
        \/ ErrorEdited(t) /\ TurnsFrame
        \/ ErrorSent(t) /\ TurnsFrame
        \/ Released(t) /\ UNCHANGED <<splitVars, requestVars, cliVars, pollVars>>

SpecShared == TurnsInit /\ [][SharedNext]_vars

\* one call of claude_cli.send_message, for every run of the backend and with
\* and without a session id
CliInit ==
    /\ cli \in {CliAt("call", session_id, run, "none", NoResult) :
                  session_id \in {None, "s1"}, run \in CliRuns}
    /\ SplitIdle
    /\ RequestIdle
    /\ BotIdle
    /\ PollIdle

CliFrame == UNCHANGED <<splitVars, requestVars, botVars, pollVars>>

CliNext ==
    \/ CliSpawned /\ CliFrame
    \/ CliCommunicated /\ CliFrame
    \/ CliWaited /\ CliFrame

SpecCli == CliInit /\ [][CliNext]_vars

\* the commands tried: every command word, /connect with no argument, with
\* a word, and with numbers inside and outside any cached list
CommandArgs == {<<>>, <<"x">>, <<"0">>, <<"1">>, <<"2">>, <<"3">>, <<"-", "1">>, <<"+", "2">>}

CommandTexts ==
    {Text(c, <<>>) : c \in COMMANDS \cup {"/other"}}
    \cup {Text("/connect", a) : a \in CommandArgs}

\* the catalogs tried: empty, with an entry /sessions hides, with nothing but
\* such an entry, in another order, and with more entries than are shown
AllCatalogs == {<<>>, <<S1, S2>>, <<S2>>, <<S3, S1>>, <<S8, S3, S4, S5, S6, S7, S1>>}

\* commands are dispatched to the rooms one after the other, as poll_loop
\* does (line 519): the next one when the handler of the last has ended
StartCommand(r) ==
    /\ tasks[1].pc \in {"idle", "done"}
    /\ Len(dispatched["r1"]) + Len(dispatched["r2"]) < MaxCommands
    /\ \E txt \in CommandTexts, all_sessions \in AllCatalogs, found \in BOOLEAN :
          Advance(1, dispatch(NewTask(HandlerOf(txt), r), room_states[r], txt,
                              all_sessions, found))
    /\ dispatched' = [dispatched EXCEPT ![r] = Append(@, Len(@) + 1)]
    /\ UNCHANGED unauthorized

CommandsInit ==
    /\ room_states = [r \in Rooms |-> BotState]
    /\ tasks = [t \in 1..1 |-> NoTask]
    /\ unauthorized = None
    /\ SplitIdle
    /\ RequestIdle
    /\ PollIdle
    /\ CliIdle

CommandsNext ==
    \/ /\ \E r \in Rooms : StartCommand(r)
       /\ Running
       /\ UNCHANGED <<splitVars, requestVars, cliVars>>
       /\ UNCHANGED <<feed, posted, last_seen, initialized_rooms, poll, polled>>
    \/ ReplySent(1) /\ UNCHANGED <<splitVars, requestVars, cliVars, pollVars>>

SpecCommands == CommandsInit /\ [][CommandsNext]_vars

\* the program: async_main after api.start(), poll_loop at line 469
Init ==
    /\ room_states = [r \in Rooms |-> BotState]
    /\ tasks = [t \in 1..1 |-> NoTask]
    /\ unauthorized = None
    /\ feed = [r \in Rooms |-> <<>>]
    /\ posted = [r \in Rooms |-> 0]
    /\ last_seen = [r \in Rooms |-> NoId]
    /\ initialized_rooms = {}
    /\ poll = PollAt("list_rooms", <<>>, "r1", <<>>)
    /\ dispatched = [r \in Rooms |-> <<>>]
    /\ polled = [r \in Rooms |-> [count |-> 0, first |-> 0]]
    /\ SplitIdle
    /\ RequestIdle
    /\ CliIdle

Frame == UNCHANGED <<splitVars, requestVars, cliVars>>

Next ==
    \/ (\E r \in RoomsOf(RoomList) : Post(r)) /\ Frame
    \/ RoomsListed /\ Frame
    \/ MessagesListed /\ Frame
    \/ MessagesRead /\ Frame
    \/ NextMessage /\ Frame
    \/ ReplySent(1) /\ Dispatched /\ Frame
    \/ ThinkingSent(1) /\ Dispatched /\ Frame
    \/ CliEnded(1) /\ Dispatched /\ Frame
    \/ FirstEdited(1) /\ Dispatched /\ Frame
    \/ FirstSent(1) /\ Dispatched /\ Frame
    \/ RestSent(1) /\ Dispatched /\ Frame
    \/ ErrorEdited(1) /\ Dispatched /\ Frame
    \/ ErrorSent(1) /\ Dispatched /\ Frame

Spec == Init /\ [][Next]_vars

(***************************************************************************)
(* Claims about split_message, checked under SpecSplit                      *)
(***************************************************************************)
IsPrefix(p, s) == Len(p) <= Len(s) /\ SubSeq(s, 1, Len(p)) = p

Drop(s, n) == SubSeq(s, n + 1, Len(s))

\* cs can be joined into s, putting between two neighbours a line break or nothing
RECURSIVE CanRejoin(_, _)
CanRejoin(cs, s) ==
    IF cs = <<>> THEN FALSE
    ELSE IF Len(cs) = 1 THEN cs[1] = s
    ELSE /\ IsPrefix(cs[1], s)
         /\ LET rest == Drop(s, Len(cs[1]))
            IN  \/ CanRejoin(Tail(cs), rest)
                \/ rest # <<>> /\ Head(rest) = NL /\ CanRejoin(Tail(cs), Tail(rest))

\* C9: joining the chunks of split_message(s, B) with the original separators
\* (a line break or nothing between neighbours) gives back s, for every s, B > 0
C9_RejoinGivesText ==
    split_pc = "returned" => CanRejoin(chunks, text)

WidestChar(s) ==
    IF s = <<>> THEN 0
    ELSE CHOOSE w \in 1..4 :
            /\ \E i \in 1..Len(s) : Utf8Len(s[i]) = w
            /\ \A i \in 1..Len(s) : Utf8Len(s[i]) <= w

\* C10 as stated: every chunk of split_message(s, B) is at most B bytes, for
\* every s and every B > 0
C10_EveryChunkFits ==
    split_pc = "returned" => \A i \in 1..Len(chunks) : ByteLen(chunks[i]) <= max_bytes

\* C10 amended: every chunk of split_message(s, B) is at most B bytes whenever
\* B is at least the encoded size of the widest single character of s
C10_ChunksFitWhenBudgetHoldsEachChar ==
    (split_pc = "returned" /\ WidestChar(text) <= max_bytes)
        => \A i \in 1..Len(chunks) : ByteLen(chunks[i]) <= max_bytes

\* a line of multi-byte characters longer than the budget was hard-split
C10_Witness ==
    /\ split_pc = "returned"
    /\ WidestChar(text) >= 2
    /\ WidestChar(text) <= max_bytes
    /\ \A i \in 1..Len(text) : text[i] # NL
    /\ Len(chunks) >= 2

(***************************************************************************)
(* Claims about _request, checked under SpecRequest                         *)
(***************************************************************************)
\* the seconds a Retry-After header asks for, read off the header strings
\* used here; -1 when the header is absent or is not an integer
HeaderSeconds(hdr) ==
    IF ~hdr.present THEN -1
    ELSE CASE hdr.value = <<"0">> -> 0
           [] hdr.value = <<"1", "0">> -> 10
           [] hdr.value = <<"6", "0">> -> 60
           [] hdr.value = <<"6", "1">> -> 61
           [] hdr.value = <<"1", "2", "0">> -> 120
           [] OTHER -> -1

ClaimedRateLimitWait(hdr) ==
    IF HeaderSeconds(hdr) = -1 THEN 5
    ELSE IF HeaderSeconds(hdr) > 60 THEN 60 ELSE HeaderSeconds(hdr)

Attempted(k) == request_pc = "ended" /\ k <= outcome.calls

Got429(k) == Attempted(k) /\ responses[k].kind = "response" /\ responses[k].status = 429

WaitedAfter(k, seconds) == Len(outcome.sleeps) >= k /\ outcome.sleeps[k] = seconds

RateLimitedThenOk ==
    /\ request_pc = "ended"
    /\ responses[1] = HttpResponse(429, Header(<<"1", "0">>))
    /\ responses[2] = HttpResponse(200, NoHeader)

\* C7 as stated: an attempt that receives 429 is followed by a wait of
\* min(Retry-After, 60) s (5 s without a usable header) and by a re-send
C7_WaitThenResend ==
    \A k \in 1..MAX_RETRIES :
        Got429(k) => /\ WaitedAfter(k, ClaimedRateLimitWait(responses[k].retry_after))
                     /\ outcome.calls > k

\* C7 amended: an attempt that receives 429 is followed by a wait of
\* min(Retry-After, 60) s (5 s without a usable header); the request is then
\* re-sent if the attempt was the first or second, and after the third attempt
\* the call fails with 'Retries exhausted' without a re-send; 429 with
\* Retry-After 10 followed by a success gives one wait, of 10 s, and a result
C7_WaitThenResendWithinBudget ==
    /\ \A k \in 1..MAX_RETRIES :
          Got429(k) =>
            /\ WaitedAfter(k, ClaimedRateLimitWait(responses[k].retry_after))
            /\ k < MAX_RETRIES => outcome.calls > k
            /\ k = MAX_RETRIES => /\ outcome.calls = k
                                  /\ outcome.kind = "HTTPStatusError"
                                  /\ outcome.detail = "Retries exhausted"
    /\ RateLimitedThenOk => outcome.kind = "return" /\ outcome.sleeps = <<10>>

C7_Witness ==
    /\ RateLimitedThenOk
    /\ outcome.kind = "return"
    /\ outcome.calls = 2

Transient(k) ==
    /\ Attempted(k)
    /\ \/ responses[k].kind = "RequestError"
       \/ responses[k].kind = "response" /\ responses[k].status >= 500

\* C8: a network failure or a 5xx on attempt 1 is followed by a wait of 2 s and
\* a second attempt, on attempt 2 by a wait of 4 s and a third attempt; on
\* attempt 3 there is no wait and no retry, and the failure reaches the caller
C8_BackoffThenPropagate ==
    /\ Transient(1) => WaitedAfter(1, 2) /\ outcome.calls >= 2
    /\ Transient(2) => WaitedAfter(2, 4) /\ outcome.calls >= 3
    /\ Transient(3) =>
          /\ Len(outcome.sleeps) = 2
          /\ outcome.calls = 3
          /\ outcome.detail # "Retries exhausted"
          /\ IF responses[3].kind = "RequestError"
             THEN outcome.kind = "RequestError"
             ELSE outcome.kind = "HTTPStatusError" /\ outcome.response = responses[3].status

C8_Witness ==
    /\ request_pc = "ended"
    /\ responses[1] = NetworkError
    /\ responses[2] = HttpResponse(503, NoHeader)
    /\ responses[3] = NetworkError
    /\ outcome.sleeps = <<2, 4>>
    /\ outcome.kind = "RequestError"

(***************************************************************************)
(* Claims about handle_text_message, checked under SpecTurns                *)
(***************************************************************************)
\* the turns of room r whose backend invocation is in flight
InFlight(r) == {t \in DOMAIN tasks : tasks[t].room = r /\ tasks[t].pc = "cli"}

\* task t enters handle_text_message in this step, in a room whose guard is set
ArrivesWhileProcessing(t) ==
    /\ tasks[t].pc = "idle"
    /\ tasks'[t].pc # "idle"
    /\ room_states[tasks'[t].room].processing

\* C1: a conversation has at most one backend invocation in flight; a turn
\* that arrives while processing is true goes to the 'Still processing' reply
\* and from there to its end, never to the backend, and no step of it changes
\* the conversation state
C1_SingleFlight ==
    /\ [](\A r \in Rooms : Cardinality(InFlight(r)) <= 1)
    /\ [][\A t \in DOMAIN tasks :
            /\ ArrivesWhileProcessing(t) =>
                  tasks'[t].pc = "send_busy" /\ room_states' = room_states
            /\ tasks[t].pc = "send_busy" =>
                  /\ tasks'[t].pc \in {"send_busy", "done"}
                  /\ tasks'[t].pc = "done" => room_states' = room_states]_vars

\* one turn waits for the backend while another of the same room was rejected
C1_Witness ==
    \E t, u \in DOMAIN tasks :
        /\ tasks[t].room = tasks[u].room
        /\ tasks[t].pc = "cli"
        /\ tasks[u].pc = "send_busy"
        /\ room_states[tasks[t].room].processing

\* task t leaves handle_text_message in this step
Exits(t) == tasks[t].pc \notin {"idle", "done"} /\ tasks'[t].pc = "done"

\* C2: when a turn that set processing = true returns or raises, processing
\* is false, whatever the exit path
C2_GuardReleasedOnExit ==
    [][\A t \in DOMAIN tasks :
          (Exits(t) /\ tasks'[t].claimed) => ~room_states'[tasks[t].room].processing]_vars

\* a turn that had claimed the guard ended by an exception raised while it
\* sent the error notice, and the guard is free
C2_Witness ==
    \E t \in DOMAIN tasks :
        /\ tasks[t].pc = "done"
        /\ tasks[t].claimed
        /\ tasks[t].exit = "Exception"
        /\ tasks[t].exit_at = "send_error"
        /\ ~room_states[tasks[t].room].processing

(***************************************************************************)
(* Claims about poll_loop, checked under Spec                               *)
(***************************************************************************)
\* the page of room r is being read for the first time
FirstPoll(r) == poll.pc = "messages" /\ poll.room = r /\ polled[r].count = 1

\* the page of room r is being read, not for the first time, with a cursor
LaterPoll(r) ==
    /\ poll.pc = "messages" /\ poll.room = r
    /\ polled[r].count = 2
    /\ last_seen[r] # NoId

\* the messages the loop is about to handle, in the order it will
Batch == IF poll.pc = "for_msg" THEN [i \in 1..Len(poll.new_messages) |-> poll.new_messages[i].id]
         ELSE <<>>

\* C3: the first poll of a conversation leaves the newest id of the feed (the
\* number of messages posted, as ids count up) as the cursor and no message to
\* dispatch, and nothing is dispatched before the second poll
C3_FirstPollOnlyMarks ==
    /\ [](\A r \in Rooms : polled[r].count <= 1 => dispatched[r] = <<>>)
    /\ [][\A r \in Rooms :
            FirstPoll(r) => /\ Batch' = <<>>
                            /\ dispatched' = dispatched
                            /\ feed[r] # <<>> => last_seen'[r] = posted[r]]_vars

\* the first poll found three messages, two of them from the user, and the
\* loop went on to the next cycle with the cursor on the newest
C3_Witness ==
    /\ polled["r1"] = [count |-> 1, first |-> 3]
    /\ poll.pc = "list_rooms"
    /\ last_seen["r1"] = 3
    /\ \E i, j \in 1..3 : i # j /\ ~Skipped(feed["r1"][i]) /\ ~Skipped(feed["r1"][j])
    /\ dispatched["r1"] = <<>>

\* the ids of ids that are greater than x, in increasing order
RECURSIVE Ascending(_, _)
Ascending(ids, x) ==
    IF \A i \in ids : i <= x THEN <<>>
    ELSE LET least == CHOOSE i \in ids : i > x /\ \A j \in ids : j > x => i <= j
         IN  <<least>> \o Ascending(ids, least)

PageIds(r) == {feed[r][i].id : i \in 1..Len(feed[r])}

\* C4: a poll after the first, with cursor X, leaves for dispatch exactly the
\* page entries newer than X (the ones in front of X in the page), oldest
\* first, and moves the cursor to the newest id of the page; a message is
\* dispatched only as the head of that batch
C4_NewerThanCursorOldestFirst ==
    /\ [][\A r \in Rooms :
            (LaterPoll(r) /\ feed[r] # <<>>) =>
                /\ Batch' = Ascending(PageIds(r), last_seen[r])
                /\ last_seen'[r] = posted[r]]_vars
    /\ [][\A r \in Rooms :
            dispatched'[r] # dispatched[r] =>
                /\ Batch # <<>> /\ poll.room = r
                /\ dispatched'[r] = Append(dispatched[r], Head(Batch))]_vars

\* the page is [A, B, X]: B and then A are up for dispatch, the cursor is on A
C4_Witness ==
    /\ poll.pc = "for_msg"
    /\ Len(feed["r1"]) = 3
    /\ Batch = <<feed["r1"][2].id, feed["r1"][1].id>>
    /\ polled["r1"].count = 2
    /\ last_seen["r1"] = feed["r1"][1].id

\* C5: no message that was in the feed at the first poll of its conversation
\* is ever dispatched, and no message id is dispatched twice
C5_NoHistoryNoRepeat ==
    \A r \in Rooms :
        \A i \in 1..Len(dispatched[r]) :
            /\ dispatched[r][i] > polled[r].first
            /\ \A j \in 1..Len(dispatched[r]) : dispatched[r][j] = dispatched[r][i] => j = i

\* messages were dispatched in two different cycles after a first poll that
\* found history
C5_Witness ==
    /\ polled["r1"].first >= 1
    /\ Len(dispatched["r1"]) >= 2
    /\ poll.pc = "for_msg"
    /\ dispatched["r1"][1] < last_seen["r1"] - Len(poll.new_messages) - 1

\* C6: once an attempt of an API call has received a 401 the poll loop has
\* stopped, wherever the call was made, and nothing is dispatched afterwards
C6_UnauthorizedStopsTheLoop ==
    /\ [](unauthorized # None => poll.pc = "exited")
    /\ [][poll.pc = "exited" => (poll'.pc = "exited" /\ dispatched' = dispatched)]_vars

\* the 401 came while the error notice was written over the placeholder
C6_Witness ==
    /\ unauthorized = "edit_error"
    /\ poll.pc = "exited"
    /\ ~room_states["r1"].processing

(***************************************************************************)
(* Claims about the command handlers, checked under SpecCommands            *)
(***************************************************************************)
\* the ways to write the number n (one digit) that int() accepts
Numerals(n) ==
    LET d == CHOOSE c \in Digits : DigitVal(c) = (IF n < 0 THEN 0 - n ELSE n)
    IN  IF n < 0 THEN {<<"-", d>>} ELSE {<<d>>, <<"+", d>>}

\* arg names no entry of the cached list: it is no number, the list is empty
\* or the number is outside 1..len(list)
NamesNoEntry(arg, pending_sessions) ==
    ~\E n \in 1..Len(pending_sessions) : arg \in Numerals(n)

\* dispatch calls the handler named, which runs up to its first await
Starts(handler) ==
    /\ tasks[1].pc \in {"idle", "done"}
    /\ tasks'[1].pc \notin {"idle", "done"}
    /\ tasks'[1].handler = handler

\* C11: a /connect whose argument names no entry of the cached list, or whose
\* session is no longer found, does not connect: it leaves every field of
\* every conversation state as it was and sends one reply, which is not the
\* confirmation
C11_RejectedConnectChangesNothing ==
    /\ [][Starts("handle_connect") =>
            LET state == room_states[tasks'[1].room] IN
            /\ NamesNoEntry(tasks'[1].arg, state.pending_sessions)
                  => tasks'[1].reply # ConnectedText
            /\ tasks'[1].reply # ConnectedText => room_states' = room_states]_vars
    /\ [][(tasks[1].handler = "handle_connect" /\ tasks[1].pc = "send_reply")
            => room_states' = room_states]_vars
    /\ [](tasks[1].handler = "handle_connect" /\ tasks[1].pc = "done"
            => /\ Len(tasks[1].sent) = 1
               /\ tasks[1].sent[1].call = "send_message")

\* /connect 3 against a cached list of two entries: the reply is on its way
\* and the conversation is not connected
C11_Witness ==
    /\ tasks[1].handler = "handle_connect" /\ tasks[1].pc = "send_reply"
    /\ tasks[1].arg = <<"3">>
    /\ Len(room_states[tasks[1].room].pending_sessions) = 2
    /\ room_states[tasks[1].room].session_id = None
    /\ tasks[1].reply = <<"Out of range. Pick a number between 1 and N.">>

(***************************************************************************)
(* Claims about what a turn sends, checked under SpecTurns                  *)
(***************************************************************************)
\* task t takes a step
Steps(t) == tasks'[t] # tasks[t]

\* C12: a turn in a conversation with no session awaits the 'Not connected'
\* reply and nothing else: it never reaches the backend call, makes that one
\* send_message call, and leaves processing and the rest of every
\* conversation state as it was
C12_NotConnectedTurnOnlyReplies ==
    /\ [][\A t \in DOMAIN tasks :
            (tasks[t].pc = "idle" /\ Steps(t)
             /\ room_states[tasks'[t].room].session_id = None)
            => /\ tasks'[t].pc = "send_not_connected"
               /\ room_states' = room_states]_vars
    /\ [][\A t \in DOMAIN tasks :
            (tasks[t].pc = "send_not_connected" /\ Steps(t))
            => /\ tasks'[t].pc = "done"
               /\ Len(tasks'[t].sent) = 1
               /\ tasks'[t].sent[1].call = "send_message"
               /\ tasks'[t].sent[1].text = NotConnectedText
               /\ ~tasks'[t].claimed
               /\ room_states' = room_states]_vars

\* a turn in a conversation with no session has ended: the prompt is in the
\* chat and the conversation is not processing
C12_Witness ==
    \E t \in DOMAIN tasks :
        /\ Finished(t) /\ tasks[t].exit_at = "send_not_connected"
        /\ tasks[t].sent = <<[call |-> "send_message", text |-> NotConnectedText, ok |-> TRUE]>>
        /\ room_states[tasks[t].room].session_id = None
        /\ ~room_states[tasks[t].room].processing

\* the awaits at which a chunk of the answer goes out
ChunkAwaits == {"edit_first", "send_first", "send_rest"}

\* the calls of sent that returned, and those that did not
Returning(sent) == SelectSeq(sent, LAMBDA c : c.ok)
Failing(sent) == {i \in 1..Len(sent) : ~sent[i].ok}

InternalTexts == {StderrText, ExceptionText}

\* C14: no text a handler has put into the chat holds the backend's stderr
\* or the text of an exception
C14_NoInternalTextInChat ==
    \A t \in DOMAIN tasks :
        \A i \in 1..Len(tasks[t].sent) :
            tasks[t].sent[i].ok =>
                \A j \in 1..Len(tasks[t].sent[i].text) :
                    tasks[t].sent[i].text[j] \notin InternalTexts

(***************************************************************************)
(* Claims about the senders and the first poll, checked under Spec          *)
(***************************************************************************)
\* the message the loop over the batch looks at next
Current == Head(poll.new_messages)

\* the sender of msg is the bot or is not authorized
Filtered(msg) == msg.personId = bot_id \/ ~is_authorized(msg.personId)

\* C15: the message passed to dispatch is the head of the batch and its
\* sender is neither the bot nor unauthorized; passing over a message of
\* the bot or of an unauthorized sender starts no handler, so makes no call
\* to the chat, and changes no conversation state
C15_OnlyAuthorizedSendersDispatched ==
    /\ [][\A r \in Rooms :
            dispatched'[r] # dispatched[r] =>
                /\ poll.pc = "for_msg" /\ poll.room = r /\ poll.new_messages # <<>>
                /\ dispatched'[r] = Append(dispatched[r], Current.id)
                /\ ~Filtered(Current)]_vars
    /\ [][(poll.pc = "for_msg" /\ poll.new_messages # <<>> /\ Filtered(Current))
            => /\ tasks' = tasks
               /\ room_states' = room_states
               /\ dispatched' = dispatched
               /\ unauthorized' = unauthorized
               /\ poll'.pc = "for_msg"]_vars

\* a message of an unauthorized sender that arrived after the first poll has
\* been passed over: the loop is at the message after it
C15_Witness ==
    /\ poll.pc = "for_msg" /\ Len(poll.new_messages) = 1
    /\ \E i \in 1..Len(feed["r1"]) :
          /\ feed["r1"][i].id = Current.id - 1
          /\ feed["r1"][i].personId = "stranger"
          /\ feed["r1"][i].id > polled["r1"].first
          /\ \A k \in 1..Len(dispatched["r1"]) : dispatched["r1"][k] # feed["r1"][i].id
    /\ polled["r1"].first >= 1

\* the loop has dealt with the page of a list_messages call for room r that
\* returned
PolledOnce(r) == polled[r].count >= 1 /\ ~(poll.pc = "messages" /\ poll.room = r)

\* C16: a room that has been polled at least once is in initialized_rooms
\* and has an entry in last_seen
C16_PolledRoomIsInitialized ==
    \A r \in Rooms :
        PolledOnce(r) => (r \in initialized_rooms /\ last_seen[r] # NoId)

(***************************************************************************)
(* Further claims about _request, checked under SpecRequest                 *)
(***************************************************************************)
\* the ways a call of _request ends
Endings == {"return", "HTTPStatusError", "RequestError", "SystemExit"}

\* attempt k was answered with a 429
RateLimited(k) == responses[k].kind = "response" /\ responses[k].status = 429

\* C17: whatever the server answers to each attempt, a call of _request can
\* run, ends with a result or a failure, and has made at most MAX_RETRIES HTTP
\* calls; each wait was followed by a call, and three 429 answers use up
\* the three attempts
C17_AtMostMaxRetriesCalls ==
    /\ request_pc = "call" => ENABLED Request
    /\ request_pc = "ended" =>
          /\ outcome.kind \in Endings
          /\ outcome.calls \in 1..MAX_RETRIES
          /\ Len(outcome.sleeps) <= MAX_RETRIES
          /\ Len(outcome.sleeps) >= outcome.calls - 1
          /\ (\A k \in 1..MAX_RETRIES : RateLimited(k)) => outcome.calls = MAX_RETRIES

\* a 429, a network failure and a 503: three calls were made, the third
\* answer is the failure
C17_Witness ==
    /\ request_pc = "ended"
    /\ RateLimited(1)
    /\ responses[2].kind = "RequestError"
    /\ responses[3].kind = "response" /\ responses[3].status = 503
    /\ outcome.calls = 3 /\ Len(outcome.sleeps) = 2
    /\ outcome.kind = "HTTPStatusError"

\* attempt k was answered in a way that is retried while attempts remain
Retried(k) ==
    \/ responses[k].kind = "RequestError"
    \/ RateLimited(k)
    \/ responses[k].kind = "response" /\ responses[k].status >= 500

\* the three attempts were made and none succeeded
AttemptsUsedUp == Retried(1) /\ Retried(2) /\ Retried(3)

\* C18 as stated: a call whose three attempts were used up without a success
\* fails with 'Retries exhausted', carrying the last response
C18_UsedUpMeansRetriesExhausted ==
    (request_pc = "ended" /\ AttemptsUsedUp) =>
        /\ outcome.kind = "HTTPStatusError"
        /\ outcome.detail = "Retries exhausted"
        /\ responses[MAX_RETRIES].kind = "response"
        /\ outcome.response = responses[MAX_RETRIES].status

\* C18: a call fails with 'Retries exhausted' exactly when two attempts were
\* retried and the third was answered with a 429, and it then carries that
\* 429; used-up attempts that end in a network failure propagate that
\* failure, and those that end in a 5xx the status error of that response
C18_RetriesExhaustedAfterLast429 ==
    request_pc = "ended" =>
        /\ outcome.detail = "Retries exhausted"
              <=> (Retried(1) /\ Retried(2) /\ RateLimited(MAX_RETRIES))
        /\ outcome.detail = "Retries exhausted"
              => /\ outcome.kind = "HTTPStatusError"
                 /\ outcome.response = 429
                 /\ Len(outcome.sleeps) = MAX_RETRIES
        /\ (AttemptsUsedUp /\ responses[MAX_RETRIES].kind = "RequestError")
              => outcome.kind = "RequestError"
        /\ (AttemptsUsedUp /\ ~RateLimited(MAX_RETRIES)
            /\ responses[MAX_RETRIES].kind = "response")
              => /\ outcome.kind = "HTTPStatusError"
                 /\ outcome.detail = "raise_for_status"
                 /\ outcome.response = responses[MAX_RETRIES].status

\* a network failure, a 500 and a 429: the call ended with 'Retries
\* exhausted' and the 429
C18_Witness ==
    /\ request_pc = "ended"
    /\ responses[1].kind = "RequestError"
    /\ responses[2].kind = "response" /\ responses[2].status = 500
    /\ RateLimited(3)
    /\ outcome.detail = "Retries exhausted"
    /\ outcome.response = 429

(***************************************************************************)
(* A further claim about the splitter, checked under SpecSplit              *)
(***************************************************************************)
\* C19: split_message returns at least one chunk, and no chunk is empty but
\* the one chunk returned for the empty text
C19_ChunksNotEmpty ==
    split_pc = "returned" =>
        /\ chunks # <<>>
        /\ \A i \in 1..Len(chunks) : chunks[i] = <<>> => (text = <<>> /\ Len(chunks) = 1)

(***************************************************************************)
(* A further claim about the command handlers, checked under SpecCommands   *)
(***************************************************************************)
\* every entry of the list shorter is an entry of the list longer
DrawnFrom(shorter, longer) ==
    \A i \in 1..Len(shorter) : \E j \in 1..Len(longer) : shorter[i] = longer[j]

\* C20: after /sessions the cached list of the conversation holds entries of
\* the list just fetched only, so none when that list is empty, and some
\* when it is not; and a /connect that connects takes the session at the
\* place its number names in the list cached at that time
C20_SessionsReplacesCachedList ==
    /\ [][Starts("handle_sessions") =>
            LET new_list == room_states'[tasks'[1].room].pending_sessions IN
            /\ DrawnFrom(new_list, tasks'[1].all_sessions)
            /\ tasks'[1].all_sessions # <<>> => new_list # <<>>]_vars
    /\ [][(Starts("handle_connect") /\ tasks'[1].reply = ConnectedText) =>
            LET state == room_states[tasks'[1].room] IN
            \E n \in 1..Len(state.pending_sessions) :
                /\ tasks'[1].arg \in Numerals(n)
                /\ room_states'[tasks'[1].room].session_id
                      = state.pending_sessions[n].session_id]_vars

(***************************************************************************)
(* Claims about /disconnect, checked under SpecCommands                     *)
(***************************************************************************)
\* C21: /disconnect in a connected conversation clears session_id,
\* session_cwd and session_label, replies with the label it had, and leaves
\* skip_permissions, pending_sessions, processing and the other
\* conversations as they were; in a conversation that is not connected it
\* changes nothing; in both cases one reply is sent, during which nothing
\* changes
C21_DisconnectClearsSessionOnly ==
    /\ [][Starts("handle_disconnect") =>
            LET r == tasks'[1].room
                old == room_states[r]
                new == room_states'[r]
            IN  /\ \A other \in Rooms \ {r} : room_states'[other] = room_states[other]
                /\ new.skip_permissions = old.skip_permissions
                /\ new.pending_sessions = old.pending_sessions
                /\ new.processing = old.processing
                /\ new.session_id = None /\ new.session_cwd = None
                /\ IF old.session_id # None
                   THEN /\ new.session_label = ""
                        /\ tasks'[1].reply = <<"Disconnected from: ", old.session_label>>
                   ELSE /\ new = old
                        /\ tasks'[1].reply = <<"Not connected to any session.">>]_vars
    /\ [][(tasks[1].handler = "handle_disconnect" /\ tasks[1].pc = "send_reply")
            => room_states' = room_states]_vars
    /\ [](tasks[1].handler = "handle_disconnect" /\ tasks[1].pc = "done"
            => /\ Len(tasks[1].sent) = 1
               /\ tasks[1].sent[1].call = "send_message")

\* a conversation connected to the session labelled "one" has been
\* disconnected: the reply names the label, the cached list is still there
C21_Witness ==
    /\ tasks[1].handler = "handle_disconnect" /\ tasks[1].pc = "done"
    /\ tasks[1].sent = <<[call |-> "send_message",
                          text |-> <<"Disconnected from: ", "one">>, ok |-> TRUE]>>
    /\ room_states[tasks[1].room].session_id = None
    /\ room_states[tasks[1].room].session_label = ""
    /\ room_states[tasks[1].room].pending_sessions # <<>>

(***************************************************************************)
(* C22: when the child does not finish within the timeout, send_message    *)
(* kills it, waits until it is reaped and only then returns the timeout    *)
(* text as an ordinary value: the call ends in a return of that text with  *)
(* the child reaped, the text is returned only by the step that waited for *)
(* a killed child, and no call ends with its child running or unreaped.    *)
(***************************************************************************)
Expired(c) == BeforeChild(c.session_id, c.run).kind = "spawned" /\ c.run.timed_out

C22_TimeoutKillsReapsThenReturns ==
    [][/\ (cli'.pc = "ended" /\ Expired(cli'))
          => /\ cli'.result = Returned(TimeoutText)
             /\ cli.pc = "wait"
             /\ cli.child = "killed"
             /\ cli'.child = "reaped"
       /\ cli'.pc = "ended" => cli'.child \in {"none", "reaped"}]_vars

\* the step by step call ends as cli_send_message says
CliEndsAsSummarised ==
    cli.pc = "ended" => cli.result = cli_send_message(cli.session_id, cli.run)

(***************************************************************************)
(* C23: the cursor is on the newest id of the batch before any message of  *)
(* the batch is dispatched and never moves back; when dispatching a        *)
(* message raises, the messages after it in the batch are left behind, and *)
(* a message left behind (at or below the cursor, not dispatched, not in   *)
(* the batch at hand) stays left behind: it is dispatched neither in that  *)
(* cycle nor in a later one.                                               *)
(***************************************************************************)
DispatchedIds(r) == {dispatched[r][i] : i \in 1..Len(dispatched[r])}

Remaining == {poll.new_messages[i].id : i \in 1..Len(poll.new_messages)}

LeftBehind(r, k) ==
    /\ k <= last_seen[r]
    /\ k \notin DispatchedIds(r)
    /\ k \notin Remaining

\* the handler awaited at line 519 ends in an exception
DispatchRaises ==
    /\ poll.pc = "dispatch"
    /\ tasks'[1].pc = "done"
    /\ tasks'[1].exit # "return"

C23_CursorFirstRestOfBatchLost ==
    /\ [][\A r \in Rooms :
            dispatched'[r] # dispatched[r] =>
                /\ last_seen[r] = poll.new_messages[Len(poll.new_messages)].id
                /\ last_seen'[r] = last_seen[r]]_vars
    /\ [][\A r \in Rooms : last_seen'[r] >= last_seen[r]]_vars
    /\ [][DispatchRaises => \A k \in Remaining : LeftBehind(poll.room, k)']_vars
    /\ [][\A r \in Rooms : \A k \in 1..(MaxMessages + 1) :
            LeftBehind(r, k) => LeftBehind(r, k)']_vars

\* the batch was 2, 3: dispatching 2 raised, and a later cycle dispatched 4
\* while 3, from an authorized sender and still in the page, never was
C23_Witness ==
    /\ dispatched["r1"] = <<2, 4>>
    /\ \E i \in 1..Len(feed["r1"]) :
          /\ feed["r1"][i].id = 3
          /\ ~Skipped(feed["r1"][i])
    /\ LeftBehind("r1", 3)
    /\ poll.pc = "list_rooms"

(***************************************************************************)
(* C24: every backend invocation receives a session id that is not None    *)
(* and is the one the conversation was bound to when the turn passed the   *)
(* test of line 374, whatever other handlers of the conversation have done *)
(* while the turn was suspended.                                           *)
(***************************************************************************)
C24_BackendGetsTheCheckedSession ==
    \A t \in DOMAIN tasks :
        tasks[t].pc = "cli" => /\ tasks[t].session # None
                               /\ tasks[t].session = tasks[t].checked

(***************************************************************************)
(* C25: the raise of 'Retries exhausted' after the loop is reached only    *)
(* when the third attempt was answered with a 429, and the response it     *)
(* refers to is then that answer; a call whose last attempt ended in a     *)
(* network failure or a 5xx does not reach it.                             *)
(***************************************************************************)
\* the call ran into the raise placed after the loop (lines 98-104)
AfterTheLoop == request_pc = "ended" /\ outcome.detail = "Retries exhausted"

\* attempt k ended in a network failure or a 5xx answer
FailedOrServerError(k) ==
    \/ responses[k].kind = "RequestError"
    \/ responses[k].kind = "response" /\ responses[k].status >= 500

C25_AfterTheLoopOnlyWithLast429 ==
    /\ AfterTheLoop =>
          /\ outcome.calls = MAX_RETRIES
          /\ RateLimited(MAX_RETRIES)
          /\ outcome.response # 0
          /\ outcome.response = responses[MAX_RETRIES].status
    /\ (request_pc = "ended" /\ outcome.calls = MAX_RETRIES
        /\ FailedOrServerError(MAX_RETRIES)) => ~AfterTheLoop

\* two network failures, so that no response existed before the third
\* attempt, and then a 429: the raise after the loop carries that 429
C25_Witness ==
    /\ AfterTheLoop
    /\ responses[1].kind = "RequestError"
    /\ responses[2].kind = "RequestError"
    /\ RateLimited(MAX_RETRIES)
    /\ outcome.response = 429

====
